---- MODULE Spec2Model ----
(***************************************************************************)
(* Samvad XR negotiation core: the stage-transition validator, the         *)
(* decision validation engine (app/services/state_engine.py) and the       *)
(* per-turn orchestrator generate_vendor_response (app/generate.py)        *)
(* running against the in-memory session store (app/services/mocks.py).    *)
(*                                                                         *)
(* Stage and mood values are the enum *values* (strings).  enums.py names  *)
(* the second stage BROWSING; generate/mocks/ai_brain call the stage in    *)
(* the same place of the graph INQUIRY.  The model keeps the string of     *)
(* enums.py and gives it both names.                                       *)
(***************************************************************************)
EXTENDS Integers, Sequences, FiniteSets, TLC

VARIABLES
    sessions,      \* MockSessionStore._sessions[session_id]: the persisted record or NoSession
    seed,          \* the record the store held when the run began (history)
    pc,            \* per coroutine: the await point generate_vendor_response is suspended at
    scene,         \* per coroutine: parsed_scene
    session_state, \* per coroutine: the local dict copy returned by load/create
    pre,           \* per coroutine: the persisted record as it was when the turn loaded it (history)
    ai_decision,   \* per coroutine: the provider's proposal
    validated,     \* per coroutine: ValidatedState of this turn
    response,      \* per coroutine: VendorResponse built, not yet returned
    result,        \* per coroutine: what the caller got: a result dict or a raised error
    path,          \* per coroutine: which branch the turn took (history)
    llm_calls,     \* per coroutine: calls of llm.generate_decision made by the current turn
    wrap_up,       \* per coroutine: wrap_up flag handed to build_system_prompt
    soft_failed,   \* per coroutine: whether a soft graph call raised in the current turn (history)
    llm,           \* OpenAILLMService.generate_decision: the activation of its attempt loop
    run,           \* the turns the caller has had answered so far, counted by outcome (history)
    stores,        \* a MockSessionStore and a Neo4jSessionStore given the same operations
    call,          \* pure-function harness: the operation and its arguments
    ret            \* pure-function harness: the value it returned

vars == <<sessions, seed, pc, scene, session_state, pre, ai_decision,
          validated, response, result, path, llm_calls, wrap_up, soft_failed,
          llm, run, stores, call, ret>>

turnVars == <<sessions, seed, pc, scene, session_state, pre, ai_decision,
              validated, response, result, path, llm_calls, wrap_up, soft_failed>>

-----------------------------------------------------------------------------
(* Domain model: app/models/enums.py                                       *)

GREETING == "GREETING"
BROWSING == "BROWSING"
INQUIRY  == BROWSING
HAGGLING == "HAGGLING"
DEAL     == "DEAL"
WALKAWAY == "WALKAWAY"
CLOSURE  == "CLOSURE"

NegotiationStage == {GREETING, BROWSING, HAGGLING, DEAL, WALKAWAY, CLOSURE}

LEGAL_TRANSITIONS_wide ==
    [s \in NegotiationStage |->
        CASE s = GREETING -> {BROWSING, HAGGLING}
          [] s = BROWSING -> {HAGGLING, WALKAWAY}
          [] s = HAGGLING -> {DEAL, WALKAWAY, CLOSURE, GREETING}
          [] s = WALKAWAY -> {HAGGLING, CLOSURE}
          [] OTHER        -> {}]

LEGAL_TRANSITIONS ==
    [s \in NegotiationStage |->
        CASE s = GREETING -> {BROWSING}
          [] s = BROWSING -> {HAGGLING, WALKAWAY}
          [] s = HAGGLING -> {DEAL, WALKAWAY, CLOSURE}
          [] s = WALKAWAY -> {HAGGLING, CLOSURE}
          [] s = DEAL     -> {}
          [] s = CLOSURE  -> {}]

TERMINAL_STAGES == {DEAL, CLOSURE}

MOOD_MIN == 0
MOOD_MAX == 100
MAX_MOOD_DELTA == 15
MAX_TURNS == 30
WRAP_UP_TURN_THRESHOLD == 25

\* settings.max_mood_delta (config.py) as generate_vendor_response passes it
max_mood_delta == 15

\* VendorMood values.  enums.py lists four; state_engine.py, mocks.py and
\* response.py also use FRIENDLY.
ENTHUSIASTIC == "enthusiastic"
FRIENDLY     == "friendly"
NEUTRAL      == "neutral"
ANNOYED      == "annoyed"
ANGRY        == "angry"
VendorMood   == {ENTHUSIASTIC, FRIENDLY, NEUTRAL, ANNOYED, ANGRY}

Max(a, b) == IF a >= b THEN a ELSE b
Min(a, b) == IF a <= b THEN a ELSE b
Abs(a)    == IF a >= 0 THEN a ELSE -a

-----------------------------------------------------------------------------
(* Transition validator: state_engine.validate_transition.  A warning is   *)
(* modelled by its kind; the list keeps the code's order.                  *)

W_TERMINAL == "cannot_leave_terminal"
W_ILLEGAL  == "illegal_transition"
W_GATE     == "walkaway_haggling_blocked"
W_STAGE    == "invalid_current_stage"
W_OFFER    == "offer_min_drop_forced"
W_CLAMP    == "happiness_clamped"
W_PRICE    == "price_raised"

validate_transition_terminal_first(current_stage, proposed_stage, happiness_score) ==
    IF current_stage \in TERMINAL_STAGES
    THEN [stage |-> current_stage, warnings |-> <<W_TERMINAL>>]
    ELSE IF proposed_stage = current_stage
    THEN [stage |-> proposed_stage, warnings |-> << >>]
    ELSE IF proposed_stage \notin LEGAL_TRANSITIONS[current_stage]
    THEN [stage |-> current_stage, warnings |-> <<W_ILLEGAL>>]
    ELSE IF current_stage = WALKAWAY /\ proposed_stage = HAGGLING /\ happiness_score <= 40
    THEN [stage |-> CLOSURE, warnings |-> <<W_GATE>>]
    ELSE [stage |-> proposed_stage, warnings |-> << >>]

validate_transition_terminal_open(current_stage, proposed_stage, happiness_score) ==
    IF proposed_stage = current_stage
    THEN [stage |-> proposed_stage, warnings |-> << >>]
    ELSE IF current_stage \in TERMINAL_STAGES
    THEN [stage |-> proposed_stage, warnings |-> <<W_TERMINAL>>]
    ELSE IF proposed_stage \notin LEGAL_TRANSITIONS[current_stage]
    THEN [stage |-> current_stage, warnings |-> <<W_ILLEGAL>>]
    ELSE IF current_stage = WALKAWAY /\ proposed_stage = HAGGLING /\ happiness_score <= 40
    THEN [stage |-> CLOSURE, warnings |-> <<W_GATE>>]
    ELSE [stage |-> proposed_stage, warnings |-> << >>]

validate_transition_gate_lt(current_stage, proposed_stage, happiness_score) ==
    IF proposed_stage = current_stage
    THEN [stage |-> proposed_stage, warnings |-> << >>]
    ELSE IF current_stage \in TERMINAL_STAGES
    THEN [stage |-> current_stage, warnings |-> <<W_TERMINAL>>]
    ELSE IF proposed_stage \notin LEGAL_TRANSITIONS[current_stage]
    THEN [stage |-> current_stage, warnings |-> <<W_ILLEGAL>>]
    ELSE IF current_stage = WALKAWAY /\ proposed_stage = HAGGLING /\ happiness_score < 40
    THEN [stage |-> CLOSURE, warnings |-> <<W_GATE>>]
    ELSE [stage |-> proposed_stage, warnings |-> << >>]

validate_transition(current_stage, proposed_stage, happiness_score) ==
    IF proposed_stage = current_stage
    THEN [stage |-> proposed_stage, warnings |-> << >>]
    ELSE IF current_stage \in TERMINAL_STAGES
    THEN [stage |-> current_stage, warnings |-> <<W_TERMINAL>>]
    ELSE IF proposed_stage \notin LEGAL_TRANSITIONS[current_stage]
    THEN [stage |-> current_stage, warnings |-> <<W_ILLEGAL>>]
    ELSE IF current_stage = WALKAWAY /\ proposed_stage = HAGGLING /\ happiness_score <= 40
    THEN [stage |-> CLOSURE, warnings |-> <<W_GATE>>]
    ELSE [stage |-> proposed_stage, warnings |-> << >>]

-----------------------------------------------------------------------------
(* Clamp / derive utilities: state_engine.derive_vendor_mood, clamp_delta  *)

derive_vendor_mood_four_tier(happiness_score) ==
    IF happiness_score > 70 THEN ENTHUSIASTIC
    ELSE IF happiness_score > 45 THEN NEUTRAL
    ELSE IF happiness_score > 25 THEN ANNOYED
    ELSE ANGRY

derive_vendor_mood(happiness_score) ==
    IF happiness_score > 80 THEN ENTHUSIASTIC
    ELSE IF happiness_score > 60 THEN FRIENDLY
    ELSE IF happiness_score > 40 THEN NEUTRAL
    ELSE IF happiness_score > 20 THEN ANNOYED
    ELSE ANGRY

RangeClamp(v) == Max(MOOD_MIN, Min(MOOD_MAX, v))

clamp_delta_unranged(current, proposed, max_delta) ==
    LET delta == proposed - current
    IN  IF Abs(delta) > max_delta
        THEN [value |-> RangeClamp(current + (IF delta > 0 THEN max_delta ELSE -max_delta)),
              was_clamped |-> TRUE]
        ELSE [value |-> proposed, was_clamped |-> FALSE]

clamp_delta_flag_any(current, proposed, max_delta) ==
    LET clamped == RangeClamp(proposed)
        delta   == clamped - current
    IN  IF Abs(delta) > max_delta
        THEN [value |-> RangeClamp(current + (IF delta > 0 THEN max_delta ELSE -max_delta)),
              was_clamped |-> TRUE]
        ELSE [value |-> clamped, was_clamped |-> clamped # proposed]

clamp_delta(current, proposed, max_delta) ==
    LET clamped == RangeClamp(proposed)
        delta   == clamped - current
    IN  IF Abs(delta) > max_delta
        THEN [value |-> RangeClamp(current + (IF delta > 0 THEN max_delta ELSE -max_delta)),
              was_clamped |-> TRUE]
        ELSE [value |-> clamped, was_clamped |-> FALSE]

is_terminal_state_deal_only(stage) == stage = DEAL

is_terminal_state(stage) == stage \in TERMINAL_STAGES

-----------------------------------------------------------------------------
(* Proposals and session records                                           *)

NoPrice      == -1            \* Python None for counter_price / last_counter_price
NoAssessment == "absent"      \* Python None for offer_assessment
OfferAssessments == {"insult", "lowball", "fair", "good", "excellent", "none"}

OFFER_MIN_DROPS_lenient(assessment) ==
    CASE assessment = "insult"  -> 6
      [] assessment = "lowball" -> 6
      [] OTHER                  -> 0

\* state_engine._OFFER_MIN_DROPS, with .get(assessment, 0)
OFFER_MIN_DROPS(assessment) ==
    CASE assessment = "insult"  -> 10
      [] assessment = "lowball" -> 6
      [] OTHER                  -> 0

DEFAULT_SESSION_STATE_inquiry ==
    [exists |-> TRUE, happiness_score |-> 50, negotiation_state |-> INQUIRY,
     turn_count |-> 0, last_counter_price |-> NoPrice]

\* mocks._DEFAULT_SESSION_STATE as create_session stores it
DEFAULT_SESSION_STATE ==
    [exists |-> TRUE, happiness_score |-> 50, negotiation_state |-> GREETING,
     turn_count |-> 0, last_counter_price |-> NoPrice]

NoSession == [exists |-> FALSE]

\* NegotiationStage(current_stage_str) with its ValueError fallback
ParseStage(stage_str, fallback) ==
    IF stage_str \in NegotiationStage THEN stage_str ELSE fallback

validate_offer_happiness_consistency(d, current_happiness) ==
    LET proposed_happiness == d.happiness_score
        assessment == IF d.offer_assessment = NoAssessment THEN "none" ELSE d.offer_assessment
        min_drop == OFFER_MIN_DROPS(assessment)
        actual_delta == current_happiness - proposed_happiness
    IN  IF min_drop <= 0
        THEN [value |-> proposed_happiness, warnings |-> << >>]
        ELSE IF actual_delta < min_drop
        THEN [value |-> Max(MOOD_MIN, current_happiness - min_drop), warnings |-> <<W_OFFER>>]
        ELSE [value |-> proposed_happiness, warnings |-> << >>]

validate_price_direction_any_change(d, ss) ==
    IF d.counter_price = NoPrice \/ ss.last_counter_price = NoPrice THEN << >>
    ELSE IF ss.negotiation_state = WALKAWAY THEN << >>
    ELSE IF d.counter_price # ss.last_counter_price THEN <<W_PRICE>>
    ELSE << >>

validate_price_direction(d, ss) ==
    IF d.counter_price = NoPrice \/ ss.last_counter_price = NoPrice THEN << >>
    ELSE IF ss.negotiation_state = WALKAWAY THEN << >>
    ELSE IF d.counter_price > ss.last_counter_price THEN <<W_PRICE>>
    ELSE << >>

validate_ai_decision_trust_mood(d, ss, max_delta) ==
    LET current_happiness == ss.happiness_score
        stage_ok      == ss.negotiation_state \in NegotiationStage
        current_stage == ParseStage(ss.negotiation_state, GREETING)
        w0       == IF stage_ok THEN << >> ELSE <<W_STAGE>>
        vt       == validate_transition(current_stage, d.negotiation_state, d.happiness_score)
        adjusted == validate_offer_happiness_consistency(d, current_happiness)
        cl       == clamp_delta(current_happiness, adjusted.value, max_delta)
        wclamp   == IF cl.was_clamped THEN <<W_CLAMP>> ELSE << >>
        wprice   == validate_price_direction(d, ss)
    IN  [kind |-> "validated",
         reply_text |-> d.reply_text,
         happiness_score |-> cl.value,
         negotiation_state |-> vt.stage,
         vendor_mood |-> d.vendor_mood,
         warnings |-> w0 \o vt.warnings \o adjusted.warnings \o wclamp \o wprice,
         is_terminal |-> is_terminal_state(vt.stage)]

validate_ai_decision_silent_default(d, ss, max_delta) ==
    LET current_happiness == ss.happiness_score
        stage_ok      == ss.negotiation_state \in NegotiationStage
        current_stage == ParseStage(ss.negotiation_state, GREETING)
        w0       == << >>
        vt       == validate_transition(current_stage, d.negotiation_state, d.happiness_score)
        adjusted == validate_offer_happiness_consistency(d, current_happiness)
        cl       == clamp_delta(current_happiness, adjusted.value, max_delta)
        wclamp   == IF cl.was_clamped THEN <<W_CLAMP>> ELSE << >>
        wprice   == validate_price_direction(d, ss)
    IN  [kind |-> "validated",
         reply_text |-> d.reply_text,
         happiness_score |-> cl.value,
         negotiation_state |-> vt.stage,
         vendor_mood |-> derive_vendor_mood(cl.value),
         warnings |-> w0 \o vt.warnings \o adjusted.warnings \o wclamp \o wprice,
         is_terminal |-> is_terminal_state(vt.stage)]

\* state_engine.validate_ai_decision: the ValidatedState it returns
validate_ai_decision(d, ss, max_delta) ==
    LET current_happiness == ss.happiness_score
        stage_ok      == ss.negotiation_state \in NegotiationStage
        current_stage == ParseStage(ss.negotiation_state, GREETING)
        w0       == IF stage_ok THEN << >> ELSE <<W_STAGE>>
        vt       == validate_transition(current_stage, d.negotiation_state, d.happiness_score)
        adjusted == validate_offer_happiness_consistency(d, current_happiness)
        cl       == clamp_delta(current_happiness, adjusted.value, max_delta)
        wclamp   == IF cl.was_clamped THEN <<W_CLAMP>> ELSE << >>
        wprice   == validate_price_direction(d, ss)
    IN  [kind |-> "validated",
         reply_text |-> d.reply_text,
         happiness_score |-> cl.value,
         negotiation_state |-> vt.stage,
         vendor_mood |-> derive_vendor_mood(cl.value),
         warnings |-> w0 \o vt.warnings \o adjusted.warnings \o wclamp \o wprice,
         is_terminal |-> is_terminal_state(vt.stage)]

-----------------------------------------------------------------------------
(* Turn orchestrator: generate.generate_vendor_response, one action per    *)
(* stretch of code between two await points, for coroutine t.              *)

Coroutines == {1, 2}

NoDecision  == [kind |-> "none"]
NoValidated == [kind |-> "none"]
NoResponse  == [kind |-> "none"]
NoResult    == [kind |-> "none"]
NoScene     == [valid |-> FALSE, kind |-> "none"]

REPLY_LLM      == "ai_decision.reply_text"
REPLY_DEAL     == "This negotiation is already done"
REPLY_OVER     == "the conversation is over"
REPLY_TOO_LONG == "It has been too long"

\* an exception as the caller gets it: its class and, for `raise X(...) from
\* exc`, the class of exc
Raised(kind)  == [kind |-> kind, cause |-> "none"]
RaisedFrom(kind, cause) == [kind |-> kind, cause |-> cause]
Returned(r)   == [kind |-> "ok", reply_text |-> r.reply_text,
                  happiness_score |-> r.happiness_score,
                  negotiation_state |-> r.negotiation_state,
                  vendor_mood |-> r.vendor_mood]

\* VendorResponse(...) as generate.py builds it on each of the three paths
VendorResponse(reply, happiness, stage, mood) ==
    [kind |-> "response", reply_text |-> reply, happiness_score |-> happiness,
     negotiation_state |-> stage, vendor_mood |-> mood]

\* except-clauses of generate.py around the store calls
StoreError_brain(outcome) ==
    IF outcome = "StateStoreError" THEN Raised("StateStoreError")
    ELSE IF outcome = "BrainServiceError" THEN Raised("BrainServiceError")
    ELSE RaisedFrom("BrainServiceError", outcome)

StoreError(outcome) ==
    IF outcome = "StateStoreError" THEN Raised("StateStoreError")
    ELSE IF outcome = "BrainServiceError" THEN Raised("BrainServiceError")
    ELSE RaisedFrom("StateStoreError", outcome)

\* except-clauses of generate.py around llm.generate_decision
LLMError(outcome) ==
    IF outcome = "BrainServiceError" THEN Raised("BrainServiceError")
    ELSE RaisedFrom("BrainServiceError", outcome)

Start_defaulted(t, sc) ==
    /\ pc[t] = "idle"
    /\ scene' = [scene EXCEPT ![t] = sc]
    /\ pc' = [pc EXCEPT ![t] = "load_session"]
    /\ UNCHANGED <<result, path>>
    /\ UNCHANGED <<sessions, seed, session_state, pre, ai_decision,
                   validated, response, llm_calls, wrap_up, call, ret,
                   soft_failed, llm, run, stores>>

\* step 1: SceneContext.model_validate(scene_context)
Start(t, sc) ==
    /\ pc[t] = "idle"
    /\ scene' = [scene EXCEPT ![t] = sc]
    /\ IF sc.valid
       THEN /\ pc' = [pc EXCEPT ![t] = "load_session"]
            /\ UNCHANGED <<result, path>>
       ELSE /\ pc' = [pc EXCEPT ![t] = "done"]
            /\ result' = [result EXCEPT ![t] =
                   RaisedFrom("BrainServiceError", "ValidationError")]
            /\ path' = [path EXCEPT ![t] = "invalid_scene"]
    /\ UNCHANGED <<sessions, seed, session_state, pre, ai_decision,
                   validated, response, llm_calls, wrap_up, call, ret,
                   soft_failed, llm, run, stores>>

\* step 2: await store.load_session(session_id)
LoadSession(t, outcome) ==
    /\ pc[t] = "load_session"
    /\ IF outcome # "ok"
       THEN /\ pc' = [pc EXCEPT ![t] = "done"]
            /\ result' = [result EXCEPT ![t] = StoreError(outcome)]
            /\ path' = [path EXCEPT ![t] = "load_failed"]
            /\ UNCHANGED <<session_state, pre>>
       ELSE IF ~sessions.exists
       THEN /\ pc' = [pc EXCEPT ![t] = "create_session"]
            /\ UNCHANGED <<result, path, session_state, pre>>
       ELSE /\ pc' = [pc EXCEPT ![t] = "get_graph_context"]
            /\ session_state' = [session_state EXCEPT ![t] = sessions]
            /\ pre' = [pre EXCEPT ![t] = sessions]
            /\ UNCHANGED <<result, path>>
    /\ UNCHANGED <<sessions, seed, scene, ai_decision, validated,
                   response, llm_calls, wrap_up, call, ret,
                   soft_failed, llm, run, stores>>

\* step 2: await store.create_session(session_id)
CreateSession(t, outcome) ==
    /\ pc[t] = "create_session"
    /\ IF outcome # "ok"
       THEN /\ pc' = [pc EXCEPT ![t] = "done"]
            /\ result' = [result EXCEPT ![t] = StoreError(outcome)]
            /\ path' = [path EXCEPT ![t] = "load_failed"]
            /\ UNCHANGED <<sessions, session_state, pre>>
       ELSE /\ pc' = [pc EXCEPT ![t] = "get_graph_context"]
            /\ sessions' = DEFAULT_SESSION_STATE
            /\ session_state' = [session_state EXCEPT ![t] = DEFAULT_SESSION_STATE]
            /\ pre' = [pre EXCEPT ![t] = DEFAULT_SESSION_STATE]
            /\ UNCHANGED <<result, path>>
    /\ UNCHANGED <<seed, scene, ai_decision, validated, response,
                   llm_calls, wrap_up, call, ret,
                   soft_failed, llm, run, stores>>

CurrentStage_scene(ss, sc) == sc.negotiation_state

\* the stage the terminal check looks at (generate.py 198-204)
CurrentStage(ss, sc) == ParseStage(ss.negotiation_state, sc.negotiation_state)

TerminalResponse_default(ss, current_stage) ==
    VendorResponse(IF current_stage = DEAL THEN REPLY_DEAL ELSE REPLY_OVER,
                   50, current_stage, NEUTRAL)

TerminalResponse(ss, current_stage) ==
    VendorResponse(IF current_stage = DEAL THEN REPLY_DEAL ELSE REPLY_OVER,
                   ss.happiness_score, current_stage, NEUTRAL)

ForcedClosureResponse_nofloor(ss) ==
    VendorResponse(REPLY_TOO_LONG, ss.happiness_score - 10, CLOSURE, ANNOYED)

ForcedClosureResponse(ss) ==
    VendorResponse(REPLY_TOO_LONG, Max(ss.happiness_score - 10, 0), CLOSURE, ANNOYED)

\* turn_count = session_state.get("turn_count", 0) + 1, written back to the dict
IncrementTurn_lost(ss) == ss

IncrementTurn(ss) == [ss EXCEPT !.turn_count = @ + 1]

WrapUp_strict(turn_count) == turn_count > WRAP_UP_TURN_THRESHOLD

\* wrap_up=turn_count >= WRAP_UP_TURN_THRESHOLD, the argument of build_system_prompt
WrapUp(turn_count) == turn_count >= WRAP_UP_TURN_THRESHOLD

GetGraphContext_shared(t, graph_ok) ==
    /\ pc[t] = "get_graph_context"
    /\ LET ss == session_state[t]
           current_stage == CurrentStage(ss, scene[t])
           counted == IncrementTurn(ss)
           turn_count == counted.turn_count
       IN  IF current_stage \in TERMINAL_STAGES
           THEN /\ response' = [response EXCEPT ![t] = TerminalResponse(ss, current_stage)]
                /\ result' = [result EXCEPT ![t] = Returned(TerminalResponse(ss, current_stage))]
                /\ pc' = [pc EXCEPT ![t] = "done"]
                /\ path' = [path EXCEPT ![t] = "terminal"]
                /\ UNCHANGED <<sessions, session_state, llm_calls, wrap_up>>
           ELSE IF turn_count > MAX_TURNS
           THEN /\ response' = [response EXCEPT ![t] = ForcedClosureResponse(ss)]
                /\ session_state' = [session_state EXCEPT ![t] =
                       [counted EXCEPT !.negotiation_state = CLOSURE]]
                /\ pc' = [pc EXCEPT ![t] = "save_forced"]
                /\ path' = [path EXCEPT ![t] = "forced_closure"]
                /\ UNCHANGED <<sessions, result, llm_calls, wrap_up>>
           ELSE /\ session_state' = [session_state EXCEPT ![t] =
                       [ss EXCEPT !.turn_count = turn_count]]
                /\ wrap_up' = [wrap_up EXCEPT ![t] = WrapUp(turn_count)]
                /\ llm_calls' = [llm_calls EXCEPT ![t] = @ + 1]
                /\ pc' = [pc EXCEPT ![t] = "generate_decision"]
                /\ path' = [path EXCEPT ![t] = "normal"]
                /\ UNCHANGED <<result, response>>
                /\ sessions' = [sessions EXCEPT !.turn_count = turn_count]
    /\ soft_failed' = [soft_failed EXCEPT ![t] = ~graph_ok]
    /\ UNCHANGED <<seed, scene, pre, ai_decision, validated, call, ret, llm, run, stores>>

\* steps 2 1/4 - 3: await store.get_graph_context (soft), the terminal check,
\* the turn increment and limit, and the call of llm.generate_decision
GetGraphContext(t, graph_ok) ==
    /\ pc[t] = "get_graph_context"
    /\ LET ss == session_state[t]
           current_stage == CurrentStage(ss, scene[t])
           counted == IncrementTurn(ss)
           turn_count == counted.turn_count
       IN  IF current_stage \in TERMINAL_STAGES
           THEN /\ response' = [response EXCEPT ![t] = TerminalResponse(ss, current_stage)]
                /\ result' = [result EXCEPT ![t] = Returned(TerminalResponse(ss, current_stage))]
                /\ pc' = [pc EXCEPT ![t] = "done"]
                /\ path' = [path EXCEPT ![t] = "terminal"]
                /\ UNCHANGED <<session_state, llm_calls, wrap_up>>
           ELSE IF turn_count > MAX_TURNS
           THEN /\ response' = [response EXCEPT ![t] = ForcedClosureResponse(ss)]
                /\ session_state' = [session_state EXCEPT ![t] =
                       [counted EXCEPT !.negotiation_state = CLOSURE]]
                /\ pc' = [pc EXCEPT ![t] = "save_forced"]
                /\ path' = [path EXCEPT ![t] = "forced_closure"]
                /\ UNCHANGED <<result, llm_calls, wrap_up>>
           ELSE /\ session_state' = [session_state EXCEPT ![t] =
                       [ss EXCEPT !.turn_count = turn_count]]
                /\ wrap_up' = [wrap_up EXCEPT ![t] = WrapUp(turn_count)]
                /\ llm_calls' = [llm_calls EXCEPT ![t] = @ + 1]
                /\ pc' = [pc EXCEPT ![t] = "generate_decision"]
                /\ path' = [path EXCEPT ![t] = "normal"]
                /\ UNCHANGED <<result, response>>
    /\ soft_failed' = [soft_failed EXCEPT ![t] = ~graph_ok]
    /\ UNCHANGED <<sessions, seed, scene, pre, ai_decision, validated, call, ret, llm, run, stores>>

SaveForced_strict(t, outcome) ==
    /\ pc[t] = "save_forced"
    /\ sessions' = IF outcome = "ok" THEN session_state[t] ELSE sessions
    /\ path' = [path EXCEPT ![t] = IF outcome = "ok" THEN "forced_closure"
                                    ELSE "forced_closure_unsaved"]
    /\ result' = [result EXCEPT ![t] = IF outcome = "ok" THEN Returned(response[t])
                                      ELSE StoreError(outcome)]
    /\ pc' = [pc EXCEPT ![t] = "done"]
    /\ UNCHANGED <<seed, scene, session_state, pre, ai_decision, validated,
                   response, llm_calls, wrap_up, call, ret,
                   soft_failed, llm, run, stores>>

\* forced closure: await store.save_session, best effort (generate.py 251-257)
SaveForced(t, outcome) ==
    /\ pc[t] = "save_forced"
    /\ sessions' = IF outcome = "ok" THEN session_state[t] ELSE sessions
    /\ path' = [path EXCEPT ![t] = IF outcome = "ok" THEN "forced_closure"
                                    ELSE "forced_closure_unsaved"]
    /\ result' = [result EXCEPT ![t] = Returned(response[t])]
    /\ pc' = [pc EXCEPT ![t] = "done"]
    /\ UNCHANGED <<seed, scene, session_state, pre, ai_decision, validated,
                   response, llm_calls, wrap_up, call, ret,
                   soft_failed, llm, run, stores>>

PersistableRaw(ss, resp, d) ==
    [ss EXCEPT !.happiness_score = d.happiness_score,
               !.negotiation_state = d.negotiation_state,
               !.last_counter_price =
                   IF d.counter_price # NoPrice THEN d.counter_price ELSE @]

\* session_state after generate.py 384-389
Persistable(ss, resp, d) ==
    [ss EXCEPT !.happiness_score = resp.happiness_score,
               !.negotiation_state = resp.negotiation_state,
               !.last_counter_price =
                   IF d.counter_price # NoPrice THEN d.counter_price ELSE @]

\* steps 3-5: llm.generate_decision returns or raises; validate; build the
\* response; update the local session_state
GenerateDecision(t, outcome, d) ==
    /\ pc[t] = "generate_decision"
    /\ IF outcome # "ok"
       THEN /\ result' = [result EXCEPT ![t] = LLMError(outcome)]
            /\ pc' = [pc EXCEPT ![t] = "done"]
            /\ path' = [path EXCEPT ![t] = "llm_failed"]
            /\ UNCHANGED <<ai_decision, validated, response, session_state>>
       ELSE LET v    == validate_ai_decision(d, session_state[t], max_mood_delta)
                resp == VendorResponse(v.reply_text, v.happiness_score,
                                       v.negotiation_state, v.vendor_mood)
            IN  /\ ai_decision' = [ai_decision EXCEPT ![t] = d]
                /\ validated' = [validated EXCEPT ![t] = v]
                /\ response' = [response EXCEPT ![t] = resp]
                /\ session_state' = [session_state EXCEPT ![t] = Persistable(@, resp, d)]
                /\ pc' = [pc EXCEPT ![t] = "save_session"]
                /\ UNCHANGED <<result, path>>
    /\ UNCHANGED <<sessions, seed, scene, pre, llm_calls, wrap_up, call, ret,
                   soft_failed, llm, run, stores>>

SaveSession_best_effort(t, outcome) ==
    /\ pc[t] = "save_session"
    /\ IF outcome # "ok"
       THEN /\ result' = [result EXCEPT ![t] = Returned(response[t])]
            /\ pc' = [pc EXCEPT ![t] = "done"]
            /\ path' = [path EXCEPT ![t] = "save_failed"]
            /\ UNCHANGED sessions
       ELSE /\ sessions' = session_state[t]
            /\ pc' = [pc EXCEPT ![t] = "record_graph"]
            /\ UNCHANGED <<result, path>>
    /\ UNCHANGED <<seed, scene, session_state, pre, ai_decision, validated,
                   response, llm_calls, wrap_up, call, ret,
                   soft_failed, llm, run, stores>>

\* step 5: await store.save_session(session_id, session_state)
SaveSession(t, outcome) ==
    /\ pc[t] = "save_session"
    /\ IF outcome # "ok"
       THEN /\ result' = [result EXCEPT ![t] = StoreError(outcome)]
            /\ pc' = [pc EXCEPT ![t] = "done"]
            /\ path' = [path EXCEPT ![t] = "save_failed"]
            /\ UNCHANGED sessions
       ELSE /\ sessions' = session_state[t]
            /\ pc' = [pc EXCEPT ![t] = "record_graph"]
            /\ UNCHANGED <<result, path>>
    /\ UNCHANGED <<seed, scene, session_state, pre, ai_decision, validated,
                   response, llm_calls, wrap_up, call, ret,
                   soft_failed, llm, run, stores>>

GraphEntries == {"user_turn", "vendor_turn", "stage_transition"}

\* the graph calls generate.py 415-476 makes: record_stage_transition only
\* when the returned stage differs from effective_stage, the stage loaded
GraphCalls(t) ==
    {"user_turn", "vendor_turn"} \cup
    (IF response[t].negotiation_state # pre[t].negotiation_state
     THEN {"stage_transition"} ELSE {})

RecordGraph_hard(t, failed) ==
    /\ pc[t] = "record_graph"
    /\ result' = [result EXCEPT ![t] =
           IF failed \cap GraphCalls(t) = {} THEN Returned(response[t])
           ELSE RaisedFrom("StateStoreError", "Exception")]
    /\ pc' = [pc EXCEPT ![t] = "done"]
    /\ soft_failed' = [soft_failed EXCEPT ![t] = @ \/ (failed \cap GraphCalls(t) # {})]
    /\ UNCHANGED <<sessions, seed, scene, session_state, pre, ai_decision, validated,
                   response, path, llm_calls, wrap_up, call, ret, llm, run, stores>>

\* step 5 1/2: record_turn (user), record_turn (vendor), record_stage_transition,
\* each soft: `failed` are the calls that raised.  The graph log they append to
\* feeds only the prompt text and is not part of the session record.  Then
\* return response.model_dump()
RecordGraph(t, failed) ==
    /\ pc[t] = "record_graph"
    /\ result' = [result EXCEPT ![t] = Returned(response[t])]
    /\ pc' = [pc EXCEPT ![t] = "done"]
    /\ soft_failed' = [soft_failed EXCEPT ![t] = @ \/ (failed \cap GraphCalls(t) # {})]
    /\ UNCHANGED <<sessions, seed, scene, session_state, pre, ai_decision, validated,
                   response, path, llm_calls, wrap_up, call, ret, llm, run, stores>>

\* the caller has its answer; the coroutine's locals go away
Return(t) ==
    /\ pc[t] = "done"
    /\ pc' = [pc EXCEPT ![t] = "idle"]
    /\ scene' = [scene EXCEPT ![t] = NoScene]
    /\ session_state' = [session_state EXCEPT ![t] = NoSession]
    /\ pre' = [pre EXCEPT ![t] = NoSession]
    /\ ai_decision' = [ai_decision EXCEPT ![t] = NoDecision]
    /\ validated' = [validated EXCEPT ![t] = NoValidated]
    /\ response' = [response EXCEPT ![t] = NoResponse]
    /\ result' = [result EXCEPT ![t] = NoResult]
    /\ path' = [path EXCEPT ![t] = "none"]
    /\ llm_calls' = [llm_calls EXCEPT ![t] = 0]
    /\ wrap_up' = [wrap_up EXCEPT ![t] = FALSE]
    /\ soft_failed' = [soft_failed EXCEPT ![t] = FALSE]
    /\ UNCHANGED <<sessions, seed, call, ret, llm, run, stores>>

-----------------------------------------------------------------------------
(* Inputs of a turn                                                        *)

SceneStages    == {GREETING, DEAL}
SceneHappiness == {55}
InvalidScene   == [valid |-> FALSE, kind |-> "invalid"]
ValidScenes    == [valid : {TRUE}, kind : {"scene"},
                   happiness_score : SceneHappiness, negotiation_state : SceneStages]
Scenes         == ValidScenes \cup {InvalidScene}

StoreOutcomes  == {"ok", "StateStoreError", "Exception"}
LLMOutcomes    == {"ok", "BrainServiceError", "Exception"}

ProposalHappiness   == {0, 40, 100}
ProposalPrices      == {NoPrice}
ProposalAssessments == {NoAssessment, "insult"}
ProposalMoods       == {NEUTRAL}

AIDecisions(hs, prices, assessments, moods) ==
    [kind : {"decision"}, reply_text : {REPLY_LLM}, happiness_score : hs,
     negotiation_state : NegotiationStage, vendor_mood : moods,
     counter_price : prices, offer_assessment : assessments]

Proposals == AIDecisions(ProposalHappiness, ProposalPrices, ProposalAssessments, ProposalMoods)

NoCall == [op |-> "none"]
NoLLM  == [pc |-> "none"]
NoRet  == [op |-> "none"]
NoRun  == [turns |-> 0, llm_turns |-> 0, failed |-> 0]
NoNode == [exists |-> FALSE]
NoStores == [mock |-> NoSession, neo4j |-> NoNode, saved |-> NoSession,
             loaded |-> [kind |-> "none"]]

IdleLocals ==
    /\ pc = [t \in Coroutines |-> "idle"]
    /\ scene = [t \in Coroutines |-> NoScene]
    /\ session_state = [t \in Coroutines |-> NoSession]
    /\ pre = [t \in Coroutines |-> NoSession]
    /\ ai_decision = [t \in Coroutines |-> NoDecision]
    /\ validated = [t \in Coroutines |-> NoValidated]
    /\ response = [t \in Coroutines |-> NoResponse]
    /\ result = [t \in Coroutines |-> NoResult]
    /\ path = [t \in Coroutines |-> "none"]
    /\ llm_calls = [t \in Coroutines |-> 0]
    /\ wrap_up = [t \in Coroutines |-> FALSE]
    /\ soft_failed = [t \in Coroutines |-> FALSE]

\* a fresh MockSessionStore; turns of one session run one after the other
Init ==
    /\ sessions = NoSession
    /\ seed = NoSession
    /\ IdleLocals
    /\ run = NoRun
    /\ stores = NoStores
    /\ llm = NoLLM
    /\ call = NoCall
    /\ ret = NoRet

Step(t) ==
    \/ \E sc \in Scenes : Start(t, sc)
    \/ \E o \in StoreOutcomes : LoadSession(t, o)
    \/ \E o \in StoreOutcomes : CreateSession(t, o)
    \/ GetGraphContext(t, TRUE)
    \/ \E o \in StoreOutcomes : SaveForced(t, o)
    \/ \E o \in LLMOutcomes : \E d \in Proposals : GenerateDecision(t, o, d)
    \/ \E o \in StoreOutcomes : SaveSession(t, o)
    \/ RecordGraph(t, {})
    \/ Return(t)

Next == Step(1)

Spec == Init /\ [][Next]_vars

-----------------------------------------------------------------------------
(* Two calls of generate_vendor_response for the same session id running   *)
(* on one event loop: they interleave at the await points.  The store and  *)
(* the provider answer every call.                                         *)

Seeded(stage, happiness, turns) ==
    [exists |-> TRUE, happiness_score |-> happiness, negotiation_state |-> stage,
     turn_count |-> turns, last_counter_price |-> NoPrice]

ConcSeeds == {NoSession,
              Seeded(GREETING, 50, 1),
              Seeded(HAGGLING, 50, 2),
              Seeded(WALKAWAY, 40, 3),
              Seeded(HAGGLING, 50, MAX_TURNS)}

ConcScene     == [valid |-> TRUE, kind |-> "scene", happiness_score |-> 55,
                  negotiation_state |-> GREETING]
ConcProposals == AIDecisions({40, 100}, {NoPrice}, {NoAssessment}, {NEUTRAL})

InitConc ==
    /\ sessions \in ConcSeeds
    /\ seed = sessions
    /\ IdleLocals
    /\ run = NoRun
    /\ stores = NoStores
    /\ llm = NoLLM
    /\ call = NoCall
    /\ ret = NoRet

ConcStep(t) ==
    \/ Start(t, ConcScene)
    \/ LoadSession(t, "ok")
    \/ CreateSession(t, "ok")
    \/ GetGraphContext(t, TRUE)
    \/ SaveForced(t, "ok")
    \/ \E d \in ConcProposals : GenerateDecision(t, "ok", d)
    \/ SaveSession(t, "ok")
    \/ RecordGraph(t, {})

NextConc == \E t \in Coroutines : ConcStep(t)

SpecConc == InitConc /\ [][NextConc]_vars

\* The record the store holds after one complete turn that starts from the
\* stored record rec and is given proposal d, when every call succeeds
TurnRecord(rec, d) ==
    LET ss == IF rec.exists THEN rec ELSE DEFAULT_SESSION_STATE
        counted == IncrementTurn(ss)
        v == validate_ai_decision(d, counted, max_mood_delta)
    IN  IF CurrentStage(ss, ConcScene) \in TERMINAL_STAGES THEN ss
        ELSE IF counted.turn_count > MAX_TURNS
        THEN [counted EXCEPT !.negotiation_state = CLOSURE]
        ELSE Persistable(counted,
                 VendorResponse(v.reply_text, v.happiness_score,
                                v.negotiation_state, v.vendor_mood), d)

-----------------------------------------------------------------------------
(* One call of generate_vendor_response against a store that already holds *)
(* some record (or none), where every collaborator may fail: the store     *)
(* with any exception, the provider, and each soft graph call.             *)

TurnSeeds == ConcSeeds \cup {Seeded(DEAL, 65, 4), Seeded(CLOSURE, 20, MAX_TURNS + 1)}

\* what a store call does: it returns, or raises one of the two documented
\* errors of app/exceptions.py, or any other exception
StoreCallOutcomes == StoreOutcomes \cup {"BrainServiceError"}

InitTurn ==
    /\ sessions \in TurnSeeds
    /\ seed = sessions
    /\ IdleLocals
    /\ run = NoRun
    /\ stores = NoStores
    /\ llm = NoLLM
    /\ call = NoCall
    /\ ret = NoRet

NextTurn ==
    \/ \E sc \in Scenes : Start(1, sc)
    \/ \E o \in StoreCallOutcomes : LoadSession(1, o)
    \/ \E o \in StoreCallOutcomes : CreateSession(1, o)
    \/ \E ok \in BOOLEAN : GetGraphContext(1, ok)
    \/ \E o \in StoreCallOutcomes : SaveForced(1, o)
    \/ \E o \in LLMOutcomes : \E d \in Proposals : GenerateDecision(1, o, d)
    \/ \E o \in StoreCallOutcomes : SaveSession(1, o)
    \/ \E failed \in SUBSET GraphEntries : RecordGraph(1, failed)

SpecTurn == InitTurn /\ [][NextTurn]_vars

-----------------------------------------------------------------------------
(* One call of generate_vendor_response against a store whose record may   *)
(* hold a negotiation_state string that is not a stage (the store is an    *)
(* external database: state_engine and generate.py both provide for it).   *)

CorruptSeeds == {Seeded("INVALID_STAGE", 50, 2),
                 Seeded("INVALID_STAGE", 30, MAX_TURNS)}

InitStored ==
    /\ sessions \in TurnSeeds \cup CorruptSeeds
    /\ seed = sessions
    /\ IdleLocals
    /\ run = NoRun
    /\ stores = NoStores
    /\ llm = NoLLM
    /\ call = NoCall
    /\ ret = NoRet

SpecStored == InitStored /\ [][NextTurn]_vars

\* What a turn that nothing fails returns and stores, from the record rec it
\* loaded, the proposal d and the scene sc, as generate.py computes it
TurnOutcome(rec, d, sc) ==
    LET current_stage == CurrentStage(rec, sc)
        counted == IncrementTurn(rec)
        v == validate_ai_decision(d, counted, max_mood_delta)
        resp == VendorResponse(v.reply_text, v.happiness_score,
                               v.negotiation_state, v.vendor_mood)
    IN  IF current_stage \in TERMINAL_STAGES
        THEN [response |-> TerminalResponse(rec, current_stage), record |-> rec]
        ELSE IF counted.turn_count > MAX_TURNS
        THEN [response |-> ForcedClosureResponse(rec),
              record |-> [counted EXCEPT !.negotiation_state = CLOSURE]]
        ELSE [response |-> resp, record |-> Persistable(counted, resp, d)]

-----------------------------------------------------------------------------
(* A run of sequential turns on one session of a fresh store that does not *)
(* fail, where the provider may fail and the request may be invalid; the   *)
(* run counts the turns answered, those that called the provider and those *)
(* that ended in an error.                                                 *)

MaxFailedTurns == 1
MaxExtraTurns  == 3
MaxRunTurns    == MAX_TURNS + MaxExtraTurns

\* the caller has its answer: the turn is counted and its locals go away
ReturnCounted(t) ==
    /\ pc[t] = "done"
    /\ run.turns < MaxRunTurns
    /\ run' = [turns |-> run.turns + 1,
               llm_turns |-> run.llm_turns + llm_calls[t],
               failed |-> run.failed + (IF result[t].kind = "ok" THEN 0 ELSE 1)]
    /\ pc' = [pc EXCEPT ![t] = "idle"]
    /\ scene' = [scene EXCEPT ![t] = NoScene]
    /\ session_state' = [session_state EXCEPT ![t] = NoSession]
    /\ pre' = [pre EXCEPT ![t] = NoSession]
    /\ ai_decision' = [ai_decision EXCEPT ![t] = NoDecision]
    /\ validated' = [validated EXCEPT ![t] = NoValidated]
    /\ response' = [response EXCEPT ![t] = NoResponse]
    /\ result' = [result EXCEPT ![t] = NoResult]
    /\ path' = [path EXCEPT ![t] = "none"]
    /\ llm_calls' = [llm_calls EXCEPT ![t] = 0]
    /\ wrap_up' = [wrap_up EXCEPT ![t] = FALSE]
    /\ soft_failed' = [soft_failed EXCEPT ![t] = FALSE]
    /\ UNCHANGED <<sessions, seed, call, ret, llm, stores>>

RunScenes      == {ConcScene, InvalidScene}
RunLLMOutcomes == {"ok", "BrainServiceError"}

InitRun ==
    /\ sessions = NoSession
    /\ seed = NoSession
    /\ IdleLocals
    /\ run = NoRun
    /\ stores = NoStores
    /\ llm = NoLLM
    /\ call = NoCall
    /\ ret = NoRet

NextRun ==
    \/ \E sc \in RunScenes :
           /\ sc.valid \/ run.failed < MaxFailedTurns
           /\ Start(1, sc)
    \/ LoadSession(1, "ok")
    \/ CreateSession(1, "ok")
    \/ GetGraphContext(1, TRUE)
    \/ SaveForced(1, "ok")
    \/ \E o \in RunLLMOutcomes : \E d \in ConcProposals :
           /\ o = "ok" \/ run.failed < MaxFailedTurns
           /\ GenerateDecision(1, o, d)
    \/ SaveSession(1, "ok")
    \/ RecordGraph(1, {})
    \/ ReturnCounted(1)

SpecRun == InitRun /\ [][NextRun]_vars

-----------------------------------------------------------------------------
(* The two SessionStore implementations, MockSessionStore (mocks.py) and   *)
(* Neo4jSessionStore (session_store.py), holding one session id and given  *)
(* the same create_session / save_session / load_session calls.  A record  *)
(* is compared on the keys the orchestrator reads: happiness_score,        *)
(* negotiation_state, turn_count and last_counter_price (an absent key is  *)
(* NoPrice, as session_state.get("last_counter_price") gives None).        *)

\* MockSessionStore.create_session: self._sessions[session_id] = defaults
MockCreate(stored) == DEFAULT_SESSION_STATE

\* MockSessionStore.save_session: self._sessions[session_id] = dict(state)
MockSave(stored, state) == state

\* MockSessionStore.load_session: None if absent, else dict(state)
MockLoad(stored) == stored

\* session_store._DEFAULT_STATE as MERGE ... ON CREATE SET writes it
DEFAULT_STATE ==
    [exists |-> TRUE, happiness_score |-> 50, negotiation_state |-> GREETING,
     turn_count |-> 0]

\* Neo4jSessionStore.create_session: MERGE (s:Session) ON CREATE SET ...;
\* an existing node is left as it is
Neo4jCreate(node) == IF node.exists THEN node ELSE DEFAULT_STATE

\* Neo4jSessionStore.save_session: MERGE (s:Session) SET s.happiness_score,
\* s.negotiation_state, s.turn_count (and updated_at); no other key of state
\* is a parameter of the query
Neo4jSave(node, state) ==
    [exists |-> TRUE, happiness_score |-> state.happiness_score,
     negotiation_state |-> state.negotiation_state,
     turn_count |-> state.turn_count]

\* Neo4jSessionStore._node_to_dict: the dict built from the node's properties
node_to_dict(node) ==
    [exists |-> TRUE, happiness_score |-> node.happiness_score,
     negotiation_state |-> node.negotiation_state,
     turn_count |-> node.turn_count, last_counter_price |-> NoPrice]

\* Neo4jSessionStore.load_session: None if no node matches
Neo4jLoad(node) == IF node.exists THEN node_to_dict(node) ELSE NoSession

\* the session_state a turn hands to save_session (generate.py 384-392)
StoreStates ==
    [exists : {TRUE}, happiness_score : {30, 50},
     negotiation_state : NegotiationStage, turn_count : {1, 2},
     last_counter_price : {NoPrice, 100, 150}]

StoresCreate ==
    /\ stores' = [mock   |-> MockCreate(stores.mock),
                  neo4j  |-> Neo4jCreate(stores.neo4j),
                  saved  |-> NoSession,
                  loaded |-> [kind |-> "none"]]
    /\ UNCHANGED <<turnVars, llm, run, call, ret>>

StoresSave(state) ==
    /\ stores' = [mock   |-> MockSave(stores.mock, state),
                  neo4j  |-> Neo4jSave(stores.neo4j, state),
                  saved  |-> state,
                  loaded |-> [kind |-> "none"]]
    /\ UNCHANGED <<turnVars, llm, run, call, ret>>

StoresLoad ==
    /\ stores' = [stores EXCEPT !.loaded =
                      [kind  |-> "loaded",
                       mock  |-> MockLoad(stores.mock),
                       neo4j |-> Neo4jLoad(stores.neo4j)]]
    /\ UNCHANGED <<turnVars, llm, run, call, ret>>

InitStores ==
    /\ sessions = NoSession
    /\ seed = sessions
    /\ IdleLocals
    /\ run = NoRun
    /\ stores = NoStores
    /\ llm = NoLLM
    /\ call = NoCall
    /\ ret = NoRet

NextStores ==
    \/ StoresCreate
    \/ \E state \in StoreStates : StoresSave(state)
    \/ StoresLoad

SpecStores == InitStores /\ [][NextStores]_vars

-----------------------------------------------------------------------------
(* Harness for the pure functions of state_engine.py: the arguments are    *)
(* drawn at the start, the action applies the function.                    *)

HSlack == 2
HappinessArgs == (MOOD_MIN - HSlack) .. (MOOD_MAX + HSlack)

ValidateTransitionCalls ==
    [op : {"validate_transition"}, current_stage : NegotiationStage,
     proposed_stage : NegotiationStage, happiness_score : HappinessArgs]

\* clamp_delta arguments: every current score, proposals a little outside
\* the score range and far outside it, small and large max_delta
PSlack == 3
ProposedArgs ==
    ((MOOD_MIN - PSlack) .. (MOOD_MAX + PSlack)) \cup {-1000, -50, 200, 1000}
MaxDeltaSmall == 3
MaxDeltaArgs == (0 .. MaxDeltaSmall) \cup {MAX_MOOD_DELTA, MOOD_MAX}

ClampDeltaCalls ==
    [op : {"clamp_delta"}, current : MOOD_MIN .. MOOD_MAX,
     proposed : ProposedArgs, max_delta : MaxDeltaArgs]

DeriveVendorMoodCalls ==
    [op : {"derive_vendor_mood"}, happiness_score : MOOD_MIN .. MOOD_MAX]

\* validate_ai_decision arguments: session_state dicts (the stage string may
\* be corrupt) and AIDecision proposals with and without price / assessment
SessionStageStrings == NegotiationStage \cup {"INVALID_STAGE"}
SessionHappiness == {5, 30, 50}
StoredPrices == {NoPrice, 120}
SessionStates ==
    [exists : {TRUE}, happiness_score : SessionHappiness,
     negotiation_state : SessionStageStrings, turn_count : {1},
     last_counter_price : StoredPrices]

DecisionScores == {h \in MOOD_MIN .. MOOD_MAX : h % 5 \in {0, 1}}
FnProposals ==
    AIDecisions(DecisionScores, {NoPrice, 100, 150},
                {NoAssessment, "insult", "lowball"}, {NEUTRAL, ANGRY})

ValidateAIDecisionCalls ==
    [op : {"validate_ai_decision"}, ai_decision : FnProposals,
     session_state : SessionStates, max_mood_delta : {max_mood_delta}]

\* validate_ai_decision on proposals carrying every offer_assessment, under
\* small and large max_mood_delta, for a session in HAGGLING
OfferProposals ==
    {d \in AIDecisions(DecisionScores, {NoPrice},
                       {NoAssessment} \cup OfferAssessments, {NEUTRAL}) :
         d.negotiation_state = HAGGLING}
OfferSessions ==
    {ss \in SessionStates : /\ ss.negotiation_state = HAGGLING
                            /\ ss.last_counter_price = NoPrice}
OfferCheckCalls ==
    [op : {"offer_check"}, ai_decision : OfferProposals,
     session_state : OfferSessions, max_mood_delta : MaxDeltaArgs]

InitFn ==
    /\ sessions = NoSession
    /\ seed = NoSession
    /\ IdleLocals
    /\ run = NoRun
    /\ stores = NoStores
    /\ llm = NoLLM
    /\ call \in ValidateTransitionCalls \cup ClampDeltaCalls
                 \cup DeriveVendorMoodCalls \cup ValidateAIDecisionCalls
                 \cup OfferCheckCalls
    /\ ret = NoRet

ApplyValidateTransition ==
    /\ call.op = "validate_transition"
    /\ ret = NoRet
    /\ ret' = [op |-> "validate_transition",
               out |-> validate_transition(call.current_stage, call.proposed_stage,
                                           call.happiness_score)]
    /\ UNCHANGED <<turnVars, llm, run, stores, call>>

ApplyClampDelta ==
    /\ call.op = "clamp_delta"
    /\ ret = NoRet
    /\ ret' = [op |-> "clamp_delta",
               out |-> clamp_delta(call.current, call.proposed, call.max_delta)]
    /\ UNCHANGED <<turnVars, llm, run, stores, call>>

ApplyDeriveVendorMood ==
    /\ call.op = "derive_vendor_mood"
    /\ ret = NoRet
    /\ ret' = [op |-> "derive_vendor_mood",
               out |-> derive_vendor_mood(call.happiness_score)]
    /\ UNCHANGED <<turnVars, llm, run, stores, call>>

ApplyValidateAIDecision ==
    /\ call.op = "validate_ai_decision"
    /\ ret = NoRet
    /\ ret' = [op |-> "validate_ai_decision",
               out |-> validate_ai_decision(call.ai_decision, call.session_state,
                                            call.max_mood_delta)]
    /\ UNCHANGED <<turnVars, llm, run, stores, call>>

\* validate_ai_decision steps 2-3: the offer check, then the clamp
ApplyOfferCheck ==
    /\ call.op = "offer_check"
    /\ ret = NoRet
    /\ ret' = [op |-> "offer_check",
               adjusted |-> validate_offer_happiness_consistency(
                                call.ai_decision, call.session_state.happiness_score),
               out |-> validate_ai_decision(call.ai_decision, call.session_state,
                                            call.max_mood_delta)]
    /\ UNCHANGED <<turnVars, llm, run, stores, call>>

NextFn ==
    \/ ApplyValidateTransition
    \/ ApplyClampDelta
    \/ ApplyDeriveVendorMood
    \/ ApplyValidateAIDecision
    \/ ApplyOfferCheck

SpecFn == InitFn /\ [][NextFn]_vars

-----------------------------------------------------------------------------
(* OpenAILLMService.generate_decision: the attempt loop around the         *)
(* provider call, and the orchestrator's validation of what it returns.    *)

BACKOFF_DELAYS_three == <<1, 2, 4>>

\* _BACKOFF_DELAYS, in seconds
BACKOFF_DELAYS == <<1, 2>>

REPLY_FALLBACK == "Ek minute bhai, zara ruko... haan, bol raha tha kya?"

\* _FALLBACK_DECISION
FALLBACK_DECISION ==
    [kind |-> "decision", reply_text |-> REPLY_FALLBACK, happiness_score |-> 50,
     negotiation_state |-> INQUIRY, vendor_mood |-> NEUTRAL,
     counter_price |-> NoPrice, offer_assessment |-> NoAssessment]

\* what one pass of the loop body can do: _call_openai and _parse_response
\* return a decision; _call_openai raises one of _RETRYABLE_ERRORS;
\* _parse_response raises JSONDecodeError, ValidationError or KeyError; or
\* any other exception is raised
CallOutcomes == {"ok", "transient", "parse_failure", "non_retryable"}

\* the activation when generate_decision is entered
EnteredLLM ==
    [pc |-> "call", attempt |-> 0, outcomes |-> << >>, slept |-> << >>,
     out |-> NoDecision, err |-> NoResult, fallback |-> FALSE]

AfterCall_retry_all(l, outcome, d) ==
    LET seen == [l EXCEPT !.outcomes = Append(@, [kind |-> outcome, decision |-> d])]
    IN  IF outcome = "ok"
        THEN [seen EXCEPT !.pc = "returned", !.out = d]
        ELSE IF l.attempt < Len(BACKOFF_DELAYS)
        THEN [seen EXCEPT !.pc = "sleep"]
        ELSE [seen EXCEPT !.pc = "returned", !.out = FALLBACK_DECISION,
                          !.fallback = TRUE]

\* one pass of `for attempt in range(1 + len(_BACKOFF_DELAYS))`, up to the
\* next await or the end of the call
AfterCall(l, outcome, d) ==
    LET seen == [l EXCEPT !.outcomes = Append(@, [kind |-> outcome, decision |-> d])]
    IN  IF outcome = "ok"
        THEN [seen EXCEPT !.pc = "returned", !.out = d]
        ELSE IF outcome = "non_retryable"
        THEN [seen EXCEPT !.pc = "raised",
                          !.err = RaisedFrom("BrainServiceError", "Exception")]
        ELSE IF l.attempt < Len(BACKOFF_DELAYS)
        THEN [seen EXCEPT !.pc = "sleep"]
        ELSE [seen EXCEPT !.pc = "returned", !.out = FALLBACK_DECISION,
                          !.fallback = TRUE]

\* the sessions the orchestrator calls the provider for: a non-terminal stage
LLMSessionStates ==
    [exists : {TRUE}, happiness_score : {30, 50},
     negotiation_state : NegotiationStage \ TERMINAL_STAGES,
     turn_count : {1}, last_counter_price : {NoPrice}]

\* generate.py: llm.generate_decision(system_prompt, user_message) is called
\* for the session the turn holds
EnterGenerateDecision(ss) ==
    /\ llm = NoLLM
    /\ call' = [op |-> "generate_decision", session_state |-> ss]
    /\ llm' = EnteredLLM
    /\ UNCHANGED <<turnVars, run, stores, ret>>

\* await self._call_openai(...); return self._parse_response(raw_content),
\* and the except-clauses
CallOpenAI(outcome, d) ==
    /\ llm.pc = "call"
    /\ llm' = AfterCall(llm, outcome, IF outcome = "ok" THEN d ELSE NoDecision)
    /\ UNCHANGED <<turnVars, run, stores, call, ret>>

\* await asyncio.sleep(_BACKOFF_DELAYS[attempt]), then the next attempt
Sleep ==
    /\ llm.pc = "sleep"
    /\ llm' = [llm EXCEPT !.pc = "call",
                          !.slept = Append(@, BACKOFF_DELAYS[llm.attempt + 1]),
                          !.attempt = @ + 1]
    /\ UNCHANGED <<turnVars, run, stores, call, ret>>

\* generate.py step 4: validate_ai_decision on the decision returned
ValidateReturned ==
    /\ llm.pc = "returned"
    /\ ret' = [op |-> "generate_decision",
               out |-> validate_ai_decision(llm.out, call.session_state,
                                            max_mood_delta)]
    /\ llm' = [llm EXCEPT !.pc = "validated"]
    /\ UNCHANGED <<turnVars, run, stores, call>>

InitLLM ==
    /\ sessions = NoSession
    /\ seed = NoSession
    /\ IdleLocals
    /\ run = NoRun
    /\ stores = NoStores
    /\ llm = NoLLM
    /\ call = NoCall
    /\ ret = NoRet

NextLLM ==
    \/ \E ss \in LLMSessionStates : EnterGenerateDecision(ss)
    \/ \E o \in CallOutcomes : \E d \in ConcProposals : CallOpenAI(o, d)
    \/ Sleep
    \/ ValidateReturned

SpecLLM == InitLLM /\ [][NextLLM]_vars

-----------------------------------------------------------------------------
(* Properties                                                              *)

Loaded(t)   == pre[t].exists
Finished(t) == pc[t] = "done"
Succeeded(t) == Finished(t) /\ result[t].kind = "ok"
StoredTurnCount == IF sessions.exists THEN sessions.turn_count ELSE 0

\* C1: a turn that loads a record whose negotiation_state is DEAL or CLOSURE
\* never calls llm.generate_decision, never reaches the provider, validation
\* or save steps, and finishes by returning a result (no error).
C1_TerminalNeverCallsProvider ==
    \A t \in Coroutines :
        (Loaded(t) /\ pre[t].negotiation_state \in TERMINAL_STAGES) =>
            /\ llm_calls[t] = 0
            /\ pc[t] \in {"get_graph_context", "done"}
            /\ Finished(t) => (result[t].kind = "ok" /\ path[t] = "terminal")

C1_Witness ==
    /\ Succeeded(1)
    /\ Loaded(1)
    /\ pre[1].negotiation_state = DEAL
    /\ llm_calls[1] = 0

\* C2: when a turn on a session whose persisted stage is terminal has
\* finished, the stored record is exactly the record the turn loaded
\* (happiness_score, negotiation_state, turn_count untouched) and the result
\* carries the persisted happiness_score and stage; turns repeat freely, so
\* this covers every later turn on the dead session.
C2_TerminalTurnWritesNothing ==
    \A t \in Coroutines :
        (Finished(t) /\ Loaded(t) /\ pre[t].negotiation_state \in TERMINAL_STAGES) =>
            /\ sessions = pre[t]
            /\ result[t].kind = "ok"
            /\ result[t].happiness_score = pre[t].happiness_score
            /\ result[t].negotiation_state = pre[t].negotiation_state

C2_Witness ==
    /\ Succeeded(1)
    /\ Loaded(1)
    /\ pre[1].negotiation_state = CLOSURE
    /\ pre[1].happiness_score # 50
    /\ pre[1].turn_count = MAX_TURNS + 1
    /\ sessions = pre[1]

\* C3: a turn that loads a non-terminal record with turn_count = MAX_TURNS
\* returns negotiation_state CLOSURE and happiness max(persisted - 10, 0)
\* without calling the provider, whatever the stage was, and when its save
\* succeeded the stored negotiation_state is CLOSURE.
C3_TurnLimitForcesClosure ==
    \A t \in Coroutines :
        (Finished(t) /\ Loaded(t) /\ pre[t].negotiation_state \notin TERMINAL_STAGES
                     /\ pre[t].turn_count = MAX_TURNS) =>
            /\ result[t].kind = "ok"
            /\ result[t].negotiation_state = CLOSURE
            /\ result[t].happiness_score = Max(pre[t].happiness_score - 10, 0)
            /\ llm_calls[t] = 0
            /\ path[t] = "forced_closure" => sessions.negotiation_state = CLOSURE

C3_Witness ==
    /\ Succeeded(1)
    /\ Loaded(1)
    /\ pre[1].negotiation_state = GREETING
    /\ pre[1].turn_count = MAX_TURNS
    /\ pre[1].happiness_score < 10
    /\ path[1] = "forced_closure"
    /\ sessions.negotiation_state = CLOSURE

\* C4: in a sequential run the stored turn_count never decreases, and the
\* save of a normal turn raises it by exactly 1.
C4_TurnCountMonotone ==
    [][ /\ StoredTurnCount' >= StoredTurnCount
        /\ (pc[1] = "save_session" /\ pc'[1] = "record_graph") =>
               StoredTurnCount' = StoredTurnCount + 1 ]_vars

C4_Witness ==
    /\ Succeeded(1)
    /\ path[1] = "normal"
    /\ sessions.exists
    /\ sessions.turn_count = MAX_TURNS
    /\ pre[1].turn_count = MAX_TURNS - 1

\* C5: after a successful normal turn the stored happiness_score and
\* negotiation_state equal the returned ones, and both are what
\* validate_ai_decision gives for the proposal and the loaded record.
C5_PersistedIsValidated ==
    \A t \in Coroutines :
        (Succeeded(t) /\ path[t] = "normal") =>
            LET v == validate_ai_decision(ai_decision[t], pre[t], max_mood_delta)
            IN  /\ sessions.happiness_score = result[t].happiness_score
                /\ sessions.negotiation_state = result[t].negotiation_state
                /\ result[t].happiness_score = v.happiness_score
                /\ result[t].negotiation_state = v.negotiation_state

C5_Witness ==
    /\ Succeeded(1)
    /\ path[1] = "normal"
    /\ ai_decision[1].happiness_score # sessions.happiness_score
    /\ ai_decision[1].negotiation_state # sessions.negotiation_state
    /\ sessions.happiness_score = result[1].happiness_score
    /\ sessions.negotiation_state = result[1].negotiation_state

\* the proposal a finished turn was given, or any proposal when it asked for none
DecisionsOf(t) ==
    IF ai_decision[t].kind = "decision" THEN {ai_decision[t]} ELSE ConcProposals

\* C6: when two concurrent turns on one session have both finished, the
\* stored record is the one that running the two turns one after the other,
\* in one of the two orders, would leave (so no turn_count increment is lost
\* and a stored terminal stage is not replaced by a non-terminal one).
C6_TurnsSerialized ==
    (\A t \in Coroutines : Finished(t)) =>
        \E d1 \in DecisionsOf(1) : \E d2 \in DecisionsOf(2) :
            \/ sessions = TurnRecord(TurnRecord(seed, d1), d2)
            \/ sessions = TurnRecord(TurnRecord(seed, d2), d1)

\* C7: validate_transition(S, S, h) = (S, []) for every stage S, terminal
\* ones included, and every h.
C7_SameStageApproved ==
    (ret.op = "validate_transition" /\ call.current_stage = call.proposed_stage) =>
        ret.out = [stage |-> call.current_stage, warnings |-> << >>]

C7_Witness ==
    /\ ret.op = "validate_transition"
    /\ call.current_stage = DEAL
    /\ call.proposed_stage = DEAL
    /\ ret.out.warnings = << >>

\* C8: validate_transition(T, X, h) for terminal T and X # T returns T and at
\* least one warning, for every h.
C8_TerminalAbsorbs ==
    (/\ ret.op = "validate_transition"
     /\ call.current_stage \in {DEAL, CLOSURE}
     /\ call.proposed_stage # call.current_stage) =>
        /\ ret.out.stage = call.current_stage
        /\ Len(ret.out.warnings) >= 1

C8_Witness ==
    /\ ret.op = "validate_transition"
    /\ call.current_stage = CLOSURE
    /\ call.proposed_stage = HAGGLING
    /\ ret.out.stage = CLOSURE

\* the legal graph as the specification states it
C9_Graph(s) ==
    CASE s = "GREETING" -> {"BROWSING"}
      [] s = "BROWSING" -> {"HAGGLING", "WALKAWAY"}
      [] s = "HAGGLING" -> {"DEAL", "WALKAWAY", "CLOSURE"}
      [] s = "WALKAWAY" -> {"HAGGLING", "CLOSURE"}
      [] OTHER          -> {}

\* C9: from a non-terminal stage, a proposal for a different stage outside
\* the legal target set (GREETING->{INQUIRY}, INQUIRY->{HAGGLING, WALKAWAY},
\* HAGGLING->{DEAL, WALKAWAY, CLOSURE}, WALKAWAY->{HAGGLING, CLOSURE}) is
\* rejected: the current stage is kept with at least one warning; a proposal
\* inside the set, other than WALKAWAY->HAGGLING, is approved without warning.
C9_ConformsToGraph ==
    (/\ ret.op = "validate_transition"
     /\ call.current_stage \notin {"DEAL", "CLOSURE"}
     /\ call.proposed_stage # call.current_stage) =>
        IF call.proposed_stage \notin C9_Graph(call.current_stage)
        THEN /\ ret.out.stage = call.current_stage
             /\ Len(ret.out.warnings) >= 1
        ELSE (call.current_stage = "WALKAWAY" /\ call.proposed_stage = "HAGGLING")
             \/ ret.out = [stage |-> call.proposed_stage, warnings |-> << >>]

C9_Witness ==
    /\ ret.op = "validate_transition"
    /\ call.current_stage = GREETING
    /\ call.proposed_stage = HAGGLING
    /\ ret.out.stage = GREETING
    /\ ret.out.stage \notin TERMINAL_STAGES
    /\ Len(ret.out.warnings) = 1

\* C10: validate_transition(WALKAWAY, HAGGLING, h) is (CLOSURE, one warning)
\* for h <= 40 and (HAGGLING, []) for h >= 41.
C10_WalkawayGate ==
    (/\ ret.op = "validate_transition"
     /\ call.current_stage = "WALKAWAY"
     /\ call.proposed_stage = "HAGGLING") =>
        IF call.happiness_score <= 40
        THEN ret.out.stage = "CLOSURE" /\ Len(ret.out.warnings) = 1
        ELSE ret.out = [stage |-> "HAGGLING", warnings |-> << >>]

C10_Witness ==
    /\ ret.op = "validate_transition"
    /\ call.current_stage = WALKAWAY
    /\ call.proposed_stage = HAGGLING
    /\ call.happiness_score = 40
    /\ ret.out.stage = CLOSURE

-----------------------------------------------------------------------------
(* Properties of clamp_delta, derive_vendor_mood and validate_ai_decision  *)

Warns(warnings, w) == \E i \in 1 .. Len(warnings) : warnings[i] = w
Validated == ret.op = "validate_ai_decision"
StageParsed == call.session_state.negotiation_state \in NegotiationStage

\* the proposal raised the vendor's price over the stored one outside WALKAWAY
PriceRaised ==
    /\ call.ai_decision.counter_price # NoPrice
    /\ call.session_state.last_counter_price # NoPrice
    /\ call.session_state.negotiation_state # "WALKAWAY"
    /\ call.ai_decision.counter_price > call.session_state.last_counter_price

\* the proposal calls the offer an insult (lowball) and drops happiness by
\* less than 10 (6) from the authoritative score
OfferDropMissed ==
    \/ /\ call.ai_decision.offer_assessment = "insult"
       /\ call.session_state.happiness_score - call.ai_decision.happiness_score < 10
    \/ /\ call.ai_decision.offer_assessment = "lowball"
       /\ call.session_state.happiness_score - call.ai_decision.happiness_score < 6

\* C11: for an authoritative record at WALKAWAY with happiness <= 40 (30 in
\* the scenario), a proposal for HAGGLING validates to CLOSURE with the
\* happiness-gate warning, whatever happiness_score the proposal carries.
C11_GateOnAuthoritativeHappiness ==
    (/\ Validated
     /\ call.session_state.negotiation_state = "WALKAWAY"
     /\ call.session_state.happiness_score <= 40
     /\ call.ai_decision.negotiation_state = "HAGGLING") =>
        /\ ret.out.negotiation_state = "CLOSURE"
        /\ Warns(ret.out.warnings, W_GATE)

\* C12: for current in 0..100, any proposed and max_delta >= 0, the value
\* clamp_delta returns lies in 0..100 and is at most max_delta away from
\* current.
C12_DeltaBound ==
    (ret.op = "clamp_delta") =>
        /\ ret.out.value \in 0 .. 100
        /\ ret.out.value - call.current <= call.max_delta
        /\ call.current - ret.out.value <= call.max_delta

C12_Witness ==
    /\ ret.op = "clamp_delta"
    /\ call.current = 90
    /\ call.proposed = 1000
    /\ call.max_delta = MaxDeltaSmall
    /\ ret.out.value = 90 + MaxDeltaSmall

\* C13: was_clamped is true exactly when the range-clamped proposal is more
\* than max_delta away from current; a proposal altered by the range clamp
\* alone (95, 200 -> 100; 5, -50 -> 0) and one exactly max_delta away report
\* false.
C13_WasClampedIffDeltaEnforced ==
    (ret.op = "clamp_delta") =>
        LET ranged == IF call.proposed < 0 THEN 0
                      ELSE IF call.proposed > 100 THEN 100 ELSE call.proposed
            dist   == IF ranged >= call.current THEN ranged - call.current
                      ELSE call.current - ranged
        IN  /\ ret.out.was_clamped = (dist > call.max_delta)
            /\ (call.current = 95 /\ call.proposed = 200 /\ call.max_delta = 15) =>
                   ret.out = [value |-> 100, was_clamped |-> FALSE]
            /\ (call.current = 5 /\ call.proposed = -50 /\ call.max_delta = 15) =>
                   ret.out = [value |-> 0, was_clamped |-> FALSE]
            /\ (dist = call.max_delta) => ~ret.out.was_clamped

C13_Witness ==
    /\ ret.op = "clamp_delta"
    /\ call.current = 95
    /\ call.proposed = 200
    /\ call.max_delta = 15
    /\ ret.out.value = 100
    /\ ~ret.out.was_clamped

C15_ProposedMoodDiscarded ==
    Validated =>
        /\ ret.out.vendor_mood = derive_vendor_mood(ret.out.happiness_score)
        /\ \A m \in VendorMood :
               validate_ai_decision([call.ai_decision EXCEPT !.vendor_mood = m],
                                    call.session_state, call.max_mood_delta) = ret.out

C15_Witness ==
    /\ Validated
    /\ call.ai_decision.vendor_mood = ANGRY
    /\ call.ai_decision.happiness_score = 100
    /\ ret.out.happiness_score = 65
    /\ ret.out.vendor_mood = FRIENDLY

\* C16: when the authoritative negotiation_state is not a stage name,
\* validate_ai_decision returns a ValidatedState (no error), its first
\* warning tells of the defaulting, and the approved stage is the one the
\* transition rules give from GREETING: the proposal when it is GREETING or
\* INQUIRY, GREETING otherwise.
C16_InvalidStageDefaultsToGreeting ==
    (Validated /\ ~StageParsed) =>
        /\ ret.out.kind = "validated"
        /\ Len(ret.out.warnings) >= 1
        /\ ret.out.warnings[1] = W_STAGE
        /\ ret.out.negotiation_state =
               (IF call.ai_decision.negotiation_state \in {"GREETING", "BROWSING"}
                THEN call.ai_decision.negotiation_state ELSE "GREETING")

C16_Witness ==
    /\ Validated
    /\ call.session_state.negotiation_state = "INVALID_STAGE"
    /\ call.ai_decision.negotiation_state = INQUIRY
    /\ ret.out.negotiation_state = INQUIRY
    /\ ret.out.warnings = <<W_STAGE>>

\* a legal stage change other than WALKAWAY -> HAGGLING, with a proposed
\* happiness more than max_mood_delta away from the authoritative one
C18_Case ==
    /\ Validated
    /\ StageParsed
    /\ call.ai_decision.negotiation_state \in C9_Graph(call.session_state.negotiation_state)
    /\ ~(/\ call.session_state.negotiation_state = "WALKAWAY"
         /\ call.ai_decision.negotiation_state = "HAGGLING")
    /\ Abs(call.ai_decision.happiness_score - call.session_state.happiness_score)
           > call.max_mood_delta

C18_Outcome ==
    /\ ret.out.negotiation_state = call.ai_decision.negotiation_state
    /\ ret.out.happiness_score =
           (IF call.ai_decision.happiness_score > call.session_state.happiness_score
            THEN call.session_state.happiness_score + call.max_mood_delta
            ELSE call.session_state.happiness_score - call.max_mood_delta)
    /\ ret.out.is_terminal = (ret.out.negotiation_state \in {"DEAL", "CLOSURE"})
    /\ ret.out.warnings = <<W_CLAMP>>

C19_Uncorrected ==
    /\ Validated
    /\ StageParsed
    /\ ret.out.negotiation_state = call.ai_decision.negotiation_state
    /\ ret.out.happiness_score = call.ai_decision.happiness_score

\* C19 as stated: an uncorrected proposal has an empty warnings list, for
\* every counter_price, offer_assessment and stored last_counter_price.
C19_UncorrectedHasNoWarning == C19_Uncorrected => ret.out.warnings = << >>

\* C19 amended: an uncorrected proposal has an empty warnings list provided
\* it does not raise the stored counter price outside WALKAWAY and, when it
\* assesses the offer as insult (lowball), drops happiness by at least 10 (6).
C19_UncorrectedQuietOfferHasNoWarning ==
    (C19_Uncorrected /\ ~PriceRaised /\ ~OfferDropMissed) => ret.out.warnings = << >>

C19_Witness ==
    /\ C19_Uncorrected
    /\ call.ai_decision.offer_assessment = "insult"
    /\ call.ai_decision.counter_price = 100
    /\ call.session_state.last_counter_price = 120
    /\ call.session_state.happiness_score = 50
    /\ call.ai_decision.happiness_score = 40
    /\ call.ai_decision.negotiation_state # call.session_state.negotiation_state
    /\ ret.out.warnings = << >>

\* C20: the record a turn creates for an absent session id is happiness 50,
\* GREETING, turn_count 0, and when that first turn has returned, whatever
\* the provider proposed, the stored turn_count is 1 and the stored stage is
\* GREETING or INQUIRY.
C20_FirstTurn ==
    /\ (sessions.exists /\ sessions.turn_count = 0) =>
           /\ sessions.happiness_score = 50
           /\ sessions.negotiation_state = "GREETING"
    /\ \A t \in Coroutines :
           (Succeeded(t) /\ Loaded(t) /\ pre[t].turn_count = 0) =>
               /\ sessions.turn_count = 1
               /\ sessions.negotiation_state \in {"GREETING", "BROWSING"}

C20_Witness ==
    /\ Succeeded(1)
    /\ pre[1].turn_count = 0
    /\ ai_decision[1].kind = "decision"
    /\ ai_decision[1].negotiation_state = INQUIRY
    /\ sessions.turn_count = 1
    /\ sessions.negotiation_state = INQUIRY

-----------------------------------------------------------------------------
(* Failures of a turn                                                      *)

Failed(t) == Finished(t) /\ result[t].kind # "ok"

\* an exception of the store is either wrapped in a StateStoreError or is one
\* of the two classes the except-clause re-raises as they are
StoreFailure(r) ==
    \/ r.kind = "StateStoreError"
    \/ r = Raised("BrainServiceError")

\* C21: a turn whose scene_context does not validate fails with
\* BrainServiceError before the store or the provider is touched: nothing is
\* loaded or created, the stored record is the one the turn found, and the
\* provider is not called.
C21_InvalidSceneFailsFirst ==
    \A t \in Coroutines :
        scene[t].kind = "invalid" =>
            /\ Failed(t)
            /\ result[t].kind = "BrainServiceError"
            /\ ~Loaded(t)
            /\ session_state[t] = NoSession
            /\ llm_calls[t] = 0
            /\ sessions = seed

C21_Witness ==
    /\ scene[1].kind = "invalid"
    /\ Failed(1)
    /\ path[1] = "invalid_scene"
    /\ result[1] = RaisedFrom("BrainServiceError", "ValidationError")
    /\ sessions = seed
    /\ sessions.exists

\* C22: an invalid request, a provider failure and a store failure are
\* reported with three different error kinds: the kind of an invalid request
\* is neither the provider's BrainServiceError nor the store's
\* StateStoreError.
C22_ThreeDistinctErrorKinds ==
    \A t \in Coroutines :
        Failed(t) =>
            /\ path[t] = "llm_failed" => result[t].kind = "BrainServiceError"
            /\ path[t] \in {"load_failed", "save_failed"} =>
                   result[t].kind = "StateStoreError"
            /\ path[t] = "invalid_scene" =>
                   result[t].kind \notin {"BrainServiceError", "StateStoreError"}

C25_ForcedClosureSaveBestEffort ==
    \A t \in Coroutines :
        (Finished(t) /\ path[t] = "forced_closure_unsaved") =>
            /\ result[t] = Returned(ForcedClosureResponse(pre[t]))
            /\ result[t].negotiation_state = CLOSURE
            /\ llm_calls[t] = 0

C25_Witness ==
    /\ Succeeded(1)
    /\ path[1] = "forced_closure_unsaved"
    /\ result[1].negotiation_state = CLOSURE
    /\ pre[1].turn_count = MAX_TURNS
    /\ sessions = seed

\* what a turn returns and stores when it is not failed by the store or the
\* provider, as a function of the record it loaded or created and of the
\* provider's proposal alone
AnsweredPaths == {"terminal", "forced_closure", "forced_closure_unsaved", "normal"}

ExpectedResponse(t) ==
    LET counted == IncrementTurn(pre[t])
        v == validate_ai_decision(ai_decision[t], counted, max_mood_delta)
    IN  IF path[t] = "terminal"
        THEN TerminalResponse(pre[t], pre[t].negotiation_state)
        ELSE IF path[t] = "normal"
        THEN VendorResponse(v.reply_text, v.happiness_score,
                            v.negotiation_state, v.vendor_mood)
        ELSE ForcedClosureResponse(pre[t])

ExpectedRecord(t) ==
    IF path[t] = "forced_closure_unsaved" THEN pre[t]
    ELSE TurnRecord(pre[t], ai_decision[t])

\* C30: a soft graph call that raises (get_graph_context, record_turn,
\* record_stage_transition) neither fails the turn nor changes what it
\* returns and stores: a turn that the store's load and save and the provider
\* did not fail returns the result, and leaves the happiness_score,
\* negotiation_state and turn_count, that the loaded record and the
\* provider's proposal determine, whether or not a graph call raised.
C30_SoftGraphFailureChangesNothing ==
    \A t \in Coroutines :
        (Finished(t) /\ path[t] \in AnsweredPaths) =>
            /\ Succeeded(t)
            /\ result[t] = Returned(ExpectedResponse(t))
            /\ sessions.happiness_score = ExpectedRecord(t).happiness_score
            /\ sessions.negotiation_state = ExpectedRecord(t).negotiation_state
            /\ sessions.turn_count = ExpectedRecord(t).turn_count

C30_Witness ==
    /\ Succeeded(1)
    /\ soft_failed[1]
    /\ path[1] = "normal"
    /\ "stage_transition" \in GraphCalls(1)
    /\ result[1] = Returned(ExpectedResponse(1))
    /\ sessions = TurnRecord(pre[1], ai_decision[1])
    /\ sessions # pre[1]

-----------------------------------------------------------------------------
(* Properties of OpenAILLMService.generate_decision                        *)

LLMEntered  == llm.pc # "none"
LLMReturned == llm.pc \in {"returned", "validated"}
Calls       == Len(llm.outcomes)
AllOutcomes(kind) ==
    /\ Calls > 0
    /\ \A i \in 1 .. Calls : llm.outcomes[i].kind = kind
ParseFailures ==
    Cardinality({i \in 1 .. Calls : llm.outcomes[i].kind = "parse_failure"})

C27_NonTransientNeverRetried ==
    LLMEntered =>
        \A i \in 1 .. Calls :
            llm.outcomes[i].kind = "non_retryable" =>
                /\ i = Calls
                /\ llm.pc = "raised"
                /\ llm.err = RaisedFrom("BrainServiceError", "Exception")
                /\ llm.out = NoDecision
                /\ ~llm.fallback

C27_Witness ==
    /\ LLMEntered
    /\ llm.pc = "raised"
    /\ Calls = 2
    /\ llm.outcomes[1].kind = "transient"
    /\ llm.outcomes[2].kind = "non_retryable"
    /\ llm.err.kind = "BrainServiceError"

\* C28: an unparseable response is retried once and then given up: no run of
\* generate_decision sees more than 2 parse failures, and at the second one
\* it returns the fallback, however many transient failures it also saw.
C28_ParseFailureRetriedOnce ==
    LLMEntered =>
        /\ ParseFailures <= 2
        /\ ParseFailures = 2 => (LLMReturned /\ llm.fallback)

\* C29: when the attempts are exhausted generate_decision returns the fixed
\* fallback, and the turn that validates it, in whatever non-terminal stage
\* the session is, ends in that same stage, never in DEAL or CLOSURE.
C29_FallbackStageStable ==
    (LLMEntered /\ llm.fallback) =>
        /\ LLMReturned
        /\ llm.out = FALLBACK_DECISION
        /\ llm.pc = "validated" =>
               /\ ret.out.negotiation_state = call.session_state.negotiation_state
               /\ ret.out.negotiation_state \notin TERMINAL_STAGES

-----------------------------------------------------------------------------
(* Properties of sequences of turns                                        *)

\* C31: the wrap_up flag handed to the prompt is set on exactly the normal
\* turns, those that call the provider, whose incremented turn_count is at
\* least WRAP_UP_TURN_THRESHOLD: such a turn has an incremented turn_count of
\* at most MAX_TURNS, and a turn that does not build a prompt sets no flag.
C31_WrapUpFromThreshold ==
    \A t \in Coroutines :
        IF llm_calls[t] > 0
        THEN /\ pre[t].turn_count + 1 <= MAX_TURNS
             /\ wrap_up[t] <=> (pre[t].turn_count + 1 >= WRAP_UP_TURN_THRESHOLD)
        ELSE ~wrap_up[t]

C31_Witness ==
    /\ llm_calls[1] = 1
    /\ pre[1].turn_count + 1 = WRAP_UP_TURN_THRESHOLD
    /\ wrap_up[1]
    /\ Succeeded(1)

\* C32: after any sequence of turns on a freshly created session, normal,
\* terminal, forced closure or failed, the stored happiness_score is an
\* integer in [0,100], and so is the happiness_score of every result
\* returned.
C32_HappinessInRange ==
    /\ sessions.exists => sessions.happiness_score \in MOOD_MIN .. MOOD_MAX
    /\ \A t \in Coroutines :
           Succeeded(t) => result[t].happiness_score \in MOOD_MIN .. MOOD_MAX

C32_Witness ==
    /\ Succeeded(1)
    /\ path[1] = "forced_closure"
    /\ pre[1].happiness_score \in 1 .. 9
    /\ result[1].happiness_score = MOOD_MIN
    /\ sessions.happiness_score \in MOOD_MIN .. MOOD_MAX

\* the proposals a turn could have been given: the one it got, or any when
\* it did not call the provider
DecisionsFor(t) ==
    IF ai_decision[t] = NoDecision THEN Proposals ELSE {ai_decision[t]}

\* C33: the stored record is the only source of state of a turn: a turn that
\* nothing failed returns and stores what its record and its proposal give
\* under the scene it was called with, and the same record and proposal
\* under any other valid scene_context (other caller-supplied stage and
\* happiness) give the same result and the same stored record, also when
\* the stored stage string is not a stage.
C33_SceneFieldsNeverMatter ==
    \A t \in Coroutines :
        (Succeeded(t) /\ path[t] \in {"terminal", "forced_closure", "normal"}) =>
            /\ result[t] = Returned(TurnOutcome(pre[t], ai_decision[t], scene[t]).response)
            /\ sessions = TurnOutcome(pre[t], ai_decision[t], scene[t]).record
            /\ \A sc \in ValidScenes : \A d \in DecisionsFor(t) :
                   TurnOutcome(pre[t], d, sc) = TurnOutcome(pre[t], d, scene[t])

StoredStage == IF sessions.exists THEN sessions.negotiation_state ELSE "none"

\* C34: in a sequential run every change of the stored negotiation_state is
\* an edge of LEGAL_TRANSITIONS written by the save of a normal turn, whose
\* new stage is the one validate_transition approved, or the turn limit's
\* forced move to CLOSURE; a save whose proposal was rejected as illegal or
\* as leaving a terminal stage keeps the stored stage.
C34_StoredStageMovesAlongGraph ==
    [][ (sessions.exists /\ StoredStage' # StoredStage) =>
            \/ /\ pc[1] = "save_session"
               /\ StoredStage' \in LEGAL_TRANSITIONS[StoredStage]
               /\ StoredStage' = validated[1].negotiation_state
               /\ ~Warns(validated[1].warnings, W_ILLEGAL)
               /\ ~Warns(validated[1].warnings, W_TERMINAL)
            \/ /\ pc[1] = "save_forced"
               /\ StoredStage' = CLOSURE
               /\ pre[1].turn_count = MAX_TURNS ]_vars

C34_Witness ==
    /\ Succeeded(1)
    /\ path[1] = "normal"
    /\ sessions.negotiation_state # pre[1].negotiation_state
    /\ sessions.negotiation_state \in LEGAL_TRANSITIONS[pre[1].negotiation_state]
    /\ ai_decision[1].negotiation_state # sessions.negotiation_state

RunCounts ==
    /\ run.llm_turns - run.failed <= MAX_TURNS
    /\ run.turns - run.failed >= MAX_TURNS + 1 => StoredStage \in TERMINAL_STAGES

C36_MoodDerivedInEveryResult ==
    \A t \in Coroutines :
        Succeeded(t) =>
            result[t].vendor_mood = derive_vendor_mood(result[t].happiness_score)

\* C37: after a turn that returns a result and whose save, if it made one,
\* succeeded, the stored happiness_score is the happiness_score of the
\* result, on the forced-closure path as on the others.
C37_StoredHappinessIsReturned ==
    \A t \in Coroutines :
        (Succeeded(t) /\ path[t] \in {"normal", "terminal", "forced_closure"}) =>
            sessions.happiness_score = result[t].happiness_score

\* C38: a turn on an existing session that ends in an error, the provider
\* having failed or the save having failed, leaves the stored
\* happiness_score, negotiation_state and turn_count as they were before the
\* turn: the turn_count incremented in the turn, and the validated values,
\* are in the turn's local copy only.
C38_FailedTurnLeavesStore ==
    \A t \in Coroutines :
        (Failed(t) /\ path[t] \in {"llm_failed", "save_failed"} /\ seed.exists) =>
            /\ sessions.happiness_score = seed.happiness_score
            /\ sessions.negotiation_state = seed.negotiation_state
            /\ sessions.turn_count = seed.turn_count
            /\ session_state[t].turn_count = seed.turn_count + 1

C38_Witness ==
    /\ Failed(1)
    /\ path[1] = "save_failed"
    /\ seed.exists
    /\ sessions = seed
    /\ session_state[1].turn_count = seed.turn_count + 1
    /\ session_state[1].happiness_score # seed.happiness_score
    /\ session_state[1].negotiation_state # seed.negotiation_state

-----------------------------------------------------------------------------
(* Properties of the offer check                                           *)

OfferChecked == ret.op = "offer_check"
Assessment ==
    IF call.ai_decision.offer_assessment = NoAssessment THEN "none"
    ELSE call.ai_decision.offer_assessment
CurrentHappiness == call.session_state.happiness_score

\* C39 as stated: for every proposed happiness_score and every
\* max_mood_delta >= 0 the validated happiness_score is at most
\* max(0, current - 10) when offer_assessment is insult and at most
\* max(0, current - 6) when it is lowball; for every other assessment, or
\* none, the offer check hands the proposed happiness on unchanged.
C39_OfferDropEnforced ==
    OfferChecked =>
        /\ Assessment = "insult" =>
               ret.out.happiness_score <= Max(0, CurrentHappiness - 10)
        /\ Assessment = "lowball" =>
               ret.out.happiness_score <= Max(0, CurrentHappiness - 6)
        /\ Assessment \notin {"insult", "lowball"} =>
               ret.adjusted.value = call.ai_decision.happiness_score

\* C39, amended: the offer check hands on at most max(0, current - 10) for
\* insult and max(0, current - 6) for lowball, and the proposed happiness
\* unchanged for every other assessment; the clamp that follows keeps the
\* change within max_mood_delta, so the validated happiness_score is at most
\* max(0, current - min(10, max_mood_delta)) for insult and
\* max(0, current - min(6, max_mood_delta)) for lowball.
C39_OfferDropWithinClamp ==
    OfferChecked =>
        /\ Assessment = "insult" =>
               /\ ret.adjusted.value <= Max(0, CurrentHappiness - 10)
               /\ ret.out.happiness_score <=
                      Max(0, CurrentHappiness - Min(10, call.max_mood_delta))
        /\ Assessment = "lowball" =>
               /\ ret.adjusted.value <= Max(0, CurrentHappiness - 6)
               /\ ret.out.happiness_score <=
                      Max(0, CurrentHappiness - Min(6, call.max_mood_delta))
        /\ Assessment \notin {"insult", "lowball"} =>
               ret.adjusted.value = call.ai_decision.happiness_score

C39_Witness ==
    /\ OfferChecked
    /\ Assessment = "insult"
    /\ CurrentHappiness = 50
    /\ call.ai_decision.happiness_score = 45
    /\ call.max_mood_delta = MAX_MOOD_DELTA
    /\ ret.adjusted.value = 40
    /\ ret.out.happiness_score = 40

-----------------------------------------------------------------------------
(* Properties of the session stores                                        *)

\* the proposals of the turn that follows a save
NextProposals == AIDecisions({50}, {NoPrice, 100, 150}, {NoAssessment}, {NEUTRAL})

\* C40: the counter_price a turn saved is the last_counter_price the next turn
\* loads, so that validate_price_direction judges the next proposal against
\* it, and this is so for both stores: MockSessionStore and Neo4jSessionStore
\* return the same record after the same create / save / load calls.
C40_StoresAgreeOnLastPrice ==
    (stores.loaded.kind = "loaded") =>
        /\ stores.loaded.mock = stores.loaded.neo4j
        /\ (stores.saved # NoSession) =>
               \A impl \in {"mock", "neo4j"} :
                   /\ stores.loaded[impl].last_counter_price =
                          stores.saved.last_counter_price
                   /\ \A d \in NextProposals :
                          validate_price_direction(d, stores.loaded[impl]) =
                              validate_price_direction(d, stores.saved)

====
